---- MODULE Spec2Model ----
(***************************************************************************)
(* LZW encoder and decoder of src/src/lzw.rs as a state machine.           *)
(*                                                                         *)
(* enc and dec are loops over a byte source; one action is one iteration   *)
(* of the loop (EncStep, DecStep) or the exit taken on end-of-stream        *)
(* (EncFlush, DecEof).  The round trip dec(enc(x)) is the sequential        *)
(* composition: enc writes the code stream `wire`, and dec reads `wire`     *)
(* once enc has returned.                                                   *)
(*                                                                         *)
(* A Rust panic (unwrap on a failed conversion, an index out of bounds, a   *)
(* missing HashMap key) is the status "panic"; a returned Ok is "ok".       *)
(***************************************************************************)
EXTENDS Integers, Sequences, FiniteSets, TLC

VARIABLES
    input,      \* enc: the bytes `src` yields
    encPos,     \* enc: number of bytes read from `src` so far
    encAdded,   \* enc: the entries of `dict` inserted by the loop, byte sequence -> code
    encSeq,     \* enc: `seq`, the candidate sequence
    encStatus,  \* enc: "off" (not called), "run", "ok", "err" (an Err returned), "panic"
    wire,       \* the code stream: enc's `out`, dec's `src`
    decPos,     \* dec: number of bytes read from `src` so far
    decAdded,   \* dec: the entries of `dict` inserted by the loop, code -> byte sequence
    decSeq,     \* dec: `seq`, the previously decoded sequence
    decOut,     \* dec: the bytes written to `out`
    decStatus,  \* dec: "run", "ok", "err" (an Err returned), "panic"
    decCode,    \* dec: `code` of the last iteration (-1 before the first)
    decMiss,    \* dec: whether `code` was absent from `dict` in the last iteration
    capWho,     \* size projection: "enc" or "dec"
    capLen,     \* size projection: dict.len()
    capStatus,  \* size projection: "run" or "panic"
    run,        \* which call of enc and dec on `input` this is: 1 or 2
    firstWire,  \* what the first call of enc wrote
    firstOut,   \* what the first call of dec wrote
    statSrc,    \* Stat: the bytes the inner reader yields
    statPos,    \* Stat: how many of them the inner reader has handed out
    statGot,    \* Stat: the bytes read() has put in its callers' buffers
    statSink,   \* Stat: the bytes the inner writer has accepted
    read_count, \* Stat: the field read_count
    write_count,\* Stat: the field write_count
    statLast    \* Stat: the last call and what it returned

vars == <<input, encPos, encAdded, encSeq, encStatus, wire,
          decPos, decAdded, decSeq, decOut, decStatus, decCode, decMiss,
          capWho, capLen, capStatus, run, firstWire, firstOut,
          statSrc, statPos, statGot, statSink, read_count, write_count, statLast>>

encVars == <<input, encPos, encAdded, encSeq, encStatus>>
decVars == <<decPos, decAdded, decSeq, decOut, decStatus, decCode, decMiss>>
capVars == <<capWho, capLen, capStatus>>
runVars == <<run, firstWire, firstOut>>
statVars == <<statSrc, statPos, statGot, statSink, read_count, write_count, statLast>>

----------------------------------------------------------------------------
(* Program constants *)

\* u8::MAX
U8Max == 255

\* Code = u16: the largest code
CodeMax == 65535

\* the radix of one byte in to_be_bytes / from_be_bytes
ByteRadix == 256

----------------------------------------------------------------------------
(* Bounds of the model *)

\* longest input over SampleBytes
MaxLen == 7

\* longest run of one repeated byte
MaxRun == 8

\* longest arbitrary byte stream handed to dec alone
MaxWire == 6

\* longest input of the runs in which a read or a write may fail
MaxIoLen == 5

\* Stat: most bytes the inner reader holds, and the inner writer takes
MaxStatLen == 3

\* Stat: longest buffer of one read or write call
MaxBuf == 2

\* Stat: the bytes that pass through
StatBytes == {0, 255}

\* bytes the bounded inputs are drawn from: two letters and a byte >= 0x80
SampleBytes == {65, 66, 225}

\* bytes of the arbitrary code streams: codes 0x0041, 0x0100, 0x0101, 0x0102, 0x4101, ...
WireBytes == {0, 1, 2, 65}

Byte == 0 .. U8Max

----------------------------------------------------------------------------
(* Pure helpers *)

\* to_be_bytes with the two bytes swapped (little-endian)
to_le_bytes(code) == <<code % ByteRadix, code \div ByteRadix>>

\* Code::to_be_bytes
to_be_bytes(code) == <<code \div ByteRadix, code % ByteRadix>>

\* <u16>::from_be_bytes
from_be_bytes(buf) == buf[1] * ByteRadix + buf[2]

\* the conversion of dict.len() - 1 instead of dict.len()
try_into_pred(n) == IF n <= CodeMax THEN n - 1 ELSE -1

\* usize -> u16 conversion: the value, or -1 when try_into() fails (unwrap panics)
try_into(n) == IF n <= CodeMax THEN n ELSE -1

\* HashMap::len
DictLen(d) == Cardinality(DOMAIN d)

\* HashMap::insert: adds the key, or replaces the value of a key already present
DictInsert(d, k, v) == [x \in (DOMAIN d) \cup {k} |-> IF x = k THEN v ELSE d[x]]

\* build_default_enc_dict with the exclusive range u8::MIN..u8::MAX
build_default_enc_dict_exclusive == [s \in {<<i>> : i \in 0 .. U8Max - 1} |-> s[1]]

build_default_enc_dict == [s \in {<<i>> : i \in 0 .. U8Max} |-> s[1]]

build_default_dec_dict == [i \in 0 .. U8Max |-> <<i>>]

\* a HashMap as the entries build_default_*_dict made, overlaid with those inserted since
Overlay(default, added) ==
    [k \in (DOMAIN default) \cup (DOMAIN added) |->
        IF k \in DOMAIN added THEN added[k] ELSE default[k]]

\* contains_key that looks at the default entries only
contains_key_default_only(default, added, k) == k \in DOMAIN default

\* HashMap::contains_key on the map made of default and added
contains_key(default, added, k) == k \in DOMAIN added \/ k \in DOMAIN default

\* HashMap index on the map made of default and added (the key is present)
get(default, added, k) == IF k \in DOMAIN added THEN added[k] ELSE default[k]

\* HashMap::len on the map made of default and added
len(default, added) ==
    Cardinality(DOMAIN default) + Cardinality((DOMAIN added) \ (DOMAIN default))

\* enc's `dict`
encDict == Overlay(build_default_enc_dict, encAdded)

\* dec's `dict`
decDict == Overlay(build_default_dec_dict, decAdded)

\* read_exact on a buffer of n bytes: TRUE when n bytes are left after pos;
\* otherwise read_exact fails with UnexpectedEof, which read_fn! turns into Ok(None)
ReadSome(src, pos, n) == Len(src) - pos >= n

\* the codes of a code stream, two bytes each
RECURSIVE CodesOf(_)
CodesOf(w) ==
    IF Len(w) < 2 THEN <<>>
    ELSE <<from_be_bytes(SubSeq(w, 1, 2))>> \o CodesOf(SubSeq(w, 3, Len(w)))

----------------------------------------------------------------------------
(* Encoder: enc_returning_dict *)

\* the slice without its bound: the whole of seq
prev_seq_whole(seq) == seq

\* seq[..(seq.len() - 1)]
prev_seq(seq) == SubSeq(seq, 1, Len(seq) - 1)

\* mem::replace returning the new value instead of the one moved out
mem_replace_new(dest, src) == src

\* mem::replace(&mut dest, src): the value moved out of dest
mem_replace(dest, src) == dest

\* the flush without its test
FlushAlways(seq) == TRUE

\* the flush test after the loop: !seq.is_empty()
FlushNeeded(seq) == seq # <<>>

\* one iteration of `while let Some(c) = read_u8(src)?`
EncStep ==
    /\ encStatus = "run"
    /\ ReadSome(input, encPos, 1)
    /\ LET c    == input[encPos + 1]
           seq1 == Append(encSeq, c)
           code == try_into(len(build_default_enc_dict, encAdded))
       IN  /\ encPos' = encPos + 1
           /\ IF contains_key(build_default_enc_dict, encAdded, seq1)
              THEN /\ encSeq' = seq1
                   /\ UNCHANGED <<encAdded, encStatus, wire>>
              ELSE IF ~contains_key(build_default_enc_dict, encAdded, prev_seq(seq1))
              THEN \* emit: dict[seq] on a missing key panics
                   /\ encStatus' = "panic"
                   /\ encSeq' = seq1
                   /\ UNCHANGED <<encAdded, wire>>
              ELSE /\ wire' = wire \o to_be_bytes(
                                get(build_default_enc_dict, encAdded, prev_seq(seq1)))
                   /\ IF code = -1
                      THEN /\ encStatus' = "panic"
                           /\ encSeq' = seq1
                           /\ UNCHANGED encAdded
                      ELSE /\ encAdded' = DictInsert(encAdded, mem_replace(seq1, <<c>>), code)
                           /\ encSeq' = <<c>>
                           /\ UNCHANGED encStatus
    /\ UNCHANGED <<input, decVars, capVars, runVars, statVars>>

\* the flush taking the path of the loop: it inserts an entry after its emit
EncFlushInserts ==
    /\ encStatus = "run"
    /\ ~ReadSome(input, encPos, 1)
    /\ IF FlushNeeded(encSeq)
       THEN /\ wire' = wire \o to_be_bytes(
                                get(build_default_enc_dict, encAdded, encSeq))
            /\ encAdded' = DictInsert(encAdded, Append(encSeq, encSeq[1]),
                                      try_into(len(build_default_enc_dict, encAdded)))
            /\ encStatus' = "ok"
       ELSE /\ encStatus' = "ok"
            /\ UNCHANGED <<wire, encAdded>>
    /\ UNCHANGED <<input, encPos, encSeq, decVars, capVars, runVars, statVars>>

\* read_u8 returned None: the flush and `Ok(dict)`
EncFlush ==
    /\ encStatus = "run"
    /\ ~ReadSome(input, encPos, 1)
    /\ IF FlushNeeded(encSeq)
       THEN IF contains_key(build_default_enc_dict, encAdded, encSeq)
            THEN /\ wire' = wire \o to_be_bytes(
                                get(build_default_enc_dict, encAdded, encSeq))
                 /\ encStatus' = "ok"
            ELSE /\ encStatus' = "panic"
                 /\ UNCHANGED wire
       ELSE /\ encStatus' = "ok"
            /\ UNCHANGED wire
    /\ UNCHANGED <<input, encPos, encAdded, encSeq, decVars, capVars, runVars, statVars>>

----------------------------------------------------------------------------
(* Decoder: dec *)

\* the closure pushing the last byte of seq instead of the first
or_insert_with_last(seq) == Append(seq, seq[Len(seq)])

\* the closure of or_insert_with: s = seq.clone(); s.push(s[0])
or_insert_with(seq) == Append(seq, seq[1])

\* the entry inserted after the write: mem::take(&mut seq) with decoded[0] pushed
next_entry(seq, decoded) == Append(seq, decoded[1])

\* dec runs on the code stream once enc has returned Ok, or alone
DecReady == decStatus = "run" /\ encStatus \in {"ok", "off"}

\* one iteration of `while let Some(code) = read_u16(src)?`
DecStep ==
    /\ DecReady
    /\ ReadSome(wire, decPos, 2)
    /\ LET code == from_be_bytes(SubSeq(wire, decPos + 1, decPos + 2))
           miss == ~contains_key(build_default_dec_dict, decAdded, code)
       IN  /\ decPos' = decPos + 2
           /\ decCode' = code
           /\ decMiss' = miss
           /\ IF miss /\ decSeq = <<>>
              THEN \* s[0] on an empty vector panics
                   /\ decStatus' = "panic"
                   /\ UNCHANGED <<decAdded, decSeq, decOut>>
              ELSE LET added1  == IF miss
                                  THEN DictInsert(decAdded, code, or_insert_with(decSeq))
                                  ELSE decAdded
                       decoded == get(build_default_dec_dict, added1, code)
                       next    == try_into(len(build_default_dec_dict, added1))
                   IN  /\ decOut' = decOut \o decoded
                       /\ IF decSeq # <<>>
                          THEN IF next = -1
                               THEN /\ decStatus' = "panic"
                                    /\ decAdded' = added1
                                    /\ UNCHANGED decSeq
                               ELSE /\ decAdded' = DictInsert(added1, next,
                                                              next_entry(decSeq, decoded))
                                    /\ decSeq' = decoded
                                    /\ UNCHANGED decStatus
                          ELSE /\ decAdded' = added1
                               /\ decSeq' = decoded
                               /\ UNCHANGED decStatus
    /\ UNCHANGED <<encVars, wire, capVars, runVars, statVars>>

\* read_u16 returned None (fewer than two bytes were left): `Ok(())`
DecEof ==
    /\ DecReady
    /\ ~ReadSome(wire, decPos, 2)
    /\ decStatus' = "ok"
    /\ UNCHANGED <<encVars, wire, decPos, decAdded, decSeq, decOut, decCode, decMiss,
                   capVars, runVars, statVars>>

----------------------------------------------------------------------------
(* Inputs *)

RECURSIVE SeqsUpTo(_, _)
SeqsUpTo(S, n) ==
    IF n = 0 THEN {<<>>}
    ELSE LET shorter == SeqsUpTo(S, n - 1)
         IN  shorter \cup {Append(s, b) : s \in {t \in shorter : Len(t) = n - 1}, b \in S}

\* b repeated n times
Run(b, n) == [i \in 1 .. n |-> b]

Runs == {Run(b, n) : b \in Byte, n \in 1 .. MaxRun}

\* the inputs of the tests test_basic_seq_1 .. test_basic_seq_3
Ref1 == <<65, 66, 66, 65, 66, 66, 66, 65, 66, 66, 65>>
Ref2 == <<65, 66, 65, 66, 65>>
Ref3 == <<65, 66, 65, 66, 65, 66, 65>>

Inputs == SeqsUpTo(SampleBytes, MaxLen) \cup Runs \cup {Ref1, Ref2, Ref3}

----------------------------------------------------------------------------
(* Specifications *)

DecInit ==
    /\ decPos = 0
    /\ decAdded = <<>>
    /\ decSeq = <<>>
    /\ decOut = <<>>
    /\ decStatus = "run"
    /\ decCode = -1
    /\ decMiss = FALSE

CapIdle ==
    /\ capWho = "enc"
    /\ capLen = U8Max + 1
    /\ capStatus = "run"

\* the first call; nothing written by an earlier one
RunInit ==
    /\ run = 1
    /\ firstWire = <<>>
    /\ firstOut = <<>>

\* Stat::new on an inner reader and writer that hold nothing
StatIdle ==
    /\ statSrc = <<>>
    /\ statPos = 0
    /\ statGot = <<>>
    /\ statSink = <<>>
    /\ read_count = 0
    /\ write_count = 0
    /\ statLast = <<"new", "ok", 0>>

\* enc on an input, then dec on what enc wrote
Init ==
    /\ input \in Inputs
    /\ encPos = 0
    /\ encAdded = <<>>
    /\ encSeq = <<>>
    /\ encStatus = "run"
    /\ wire = <<>>
    /\ DecInit
    /\ CapIdle
    /\ RunInit
    /\ StatIdle

Next == EncStep \/ EncFlush \/ DecStep \/ DecEof

Spec == Init /\ [][Next]_vars

\* dec alone on an arbitrary byte stream
InitDec ==
    /\ input = <<>>
    /\ encPos = 0
    /\ encAdded = <<>>
    /\ encSeq = <<>>
    /\ encStatus = "off"
    /\ wire \in SeqsUpTo(WireBytes, MaxWire)
    /\ DecInit
    /\ CapIdle
    /\ RunInit
    /\ StatIdle

NextDec == DecStep \/ DecEof

SpecDec == InitDec /\ [][NextDec]_vars

----------------------------------------------------------------------------
(* Dictionary size projection.                                              *)
(*                                                                          *)
(* `dict.len().try_into().unwrap()` reads nothing of the dictionary but its *)
(* size, and a size of 2^16 takes more than 65000 insertions, so the        *)
(* capacity limit is followed on dict.len() alone: capLen is dict.len() of  *)
(* the encoder (capWho = "enc") or the decoder (capWho = "dec").            *)

\* EncStep on a byte that makes `seq` a new key: the conversion, then the insert
CapEncInsert ==
    /\ capWho = "enc"
    /\ capStatus = "run"
    /\ IF try_into(capLen) = -1
       THEN /\ capStatus' = "panic"
            /\ UNCHANGED capLen
       ELSE /\ capLen' = capLen + 1
            /\ UNCHANGED capStatus
    /\ UNCHANGED <<capWho, encVars, wire, decVars, runVars, statVars>>

\* DecStep with a non-empty `seq`: or_insert_with adds an entry when the code is
\* missing (some u16 code is missing only below 2^16 entries), then the conversion
\* and the insert under next_code
CapDecInsert ==
    /\ capWho = "dec"
    /\ capStatus = "run"
    /\ \E miss \in BOOLEAN :
        /\ miss => capLen <= CodeMax
        /\ LET len1 == IF miss THEN capLen + 1 ELSE capLen
           IN  IF try_into(len1) = -1
               THEN /\ capStatus' = "panic"
                    /\ capLen' = len1
               ELSE /\ capLen' = len1 + 1
                    /\ UNCHANGED capStatus
    /\ UNCHANGED <<capWho, encVars, wire, decVars, runVars, statVars>>

InitCap ==
    /\ input = <<>>
    /\ encPos = 0
    /\ encAdded = <<>>
    /\ encSeq = <<>>
    /\ encStatus = "off"
    /\ wire = <<>>
    /\ DecInit
    /\ capWho \in {"enc", "dec"}
    /\ capLen = DictLen(build_default_enc_dict)
    /\ capStatus = "run"
    /\ RunInit
    /\ StatIdle

NextCap == CapEncInsert \/ CapDecInsert

SpecCap == InitCap /\ [][NextCap]_vars

----------------------------------------------------------------------------
(* I/O failures: a read or a write that returns an Err other than the end of   *)
(* the stream.  `?` returns it to the caller: the status "err".               *)

\* whether seq is a prefix of full
IsPrefix(seq, full) == Len(seq) <= Len(full) /\ seq = SubSeq(full, 1, Len(seq))

\* read_u8(src)? with a failing source
EncReadFail ==
    /\ encStatus = "run"
    /\ encStatus' = "err"
    /\ UNCHANGED <<input, encPos, encAdded, encSeq, wire, decVars, capVars, runVars,
                   statVars>>

\* emit(..)? with the error dropped: the loop goes on after a short write
EncWriteFailIgnored ==
    /\ encStatus = "run"
    /\ \E k \in 0 .. 1 :
        IF ReadSome(input, encPos, 1)
        THEN LET c    == input[encPos + 1]
                 seq1 == Append(encSeq, c)
             IN  /\ ~contains_key(build_default_enc_dict, encAdded, seq1)
                 /\ contains_key(build_default_enc_dict, encAdded, prev_seq(seq1))
                 /\ wire' = wire \o SubSeq(to_be_bytes(
                        get(build_default_enc_dict, encAdded, prev_seq(seq1))), 1, k)
                 /\ encPos' = encPos + 1
                 /\ encAdded' = DictInsert(encAdded, mem_replace(seq1, <<c>>),
                                           try_into(len(build_default_enc_dict, encAdded)))
                 /\ encSeq' = <<c>>
                 /\ UNCHANGED encStatus
        ELSE /\ FlushNeeded(encSeq)
             /\ contains_key(build_default_enc_dict, encAdded, encSeq)
             /\ wire' = wire \o SubSeq(to_be_bytes(
                    get(build_default_enc_dict, encAdded, encSeq)), 1, k)
             /\ encStatus' = "ok"
             /\ UNCHANGED <<encPos, encAdded, encSeq>>
    /\ UNCHANGED <<input, decVars, capVars, runVars, statVars>>

\* emit(..)? with a failing sink, in the loop or in the flush: write_all has
\* passed on k of the code's two bytes when the sink fails
EncWriteFail ==
    /\ encStatus = "run"
    /\ \E k \in 0 .. 1 :
        IF ReadSome(input, encPos, 1)
        THEN LET c    == input[encPos + 1]
                 seq1 == Append(encSeq, c)
             IN  /\ ~contains_key(build_default_enc_dict, encAdded, seq1)
                 /\ contains_key(build_default_enc_dict, encAdded, prev_seq(seq1))
                 /\ wire' = wire \o SubSeq(to_be_bytes(
                        get(build_default_enc_dict, encAdded, prev_seq(seq1))), 1, k)
                 /\ encPos' = encPos + 1
                 /\ encSeq' = seq1
        ELSE /\ FlushNeeded(encSeq)
             /\ contains_key(build_default_enc_dict, encAdded, encSeq)
             /\ wire' = wire \o SubSeq(to_be_bytes(
                    get(build_default_enc_dict, encAdded, encSeq)), 1, k)
             /\ UNCHANGED <<encPos, encSeq>>
    /\ encStatus' = "err"
    /\ UNCHANGED <<input, encAdded, decVars, capVars, runVars, statVars>>

\* read_u16(src)? with a failing source: read_exact has taken k bytes when it fails
DecReadFail ==
    /\ DecReady
    /\ \E k \in 0 .. 1 :
        /\ ReadSome(wire, decPos, k)
        /\ decPos' = decPos + k
    /\ decStatus' = "err"
    /\ UNCHANGED <<encVars, wire, decAdded, decSeq, decOut, decCode, decMiss,
                   capVars, runVars, statVars>>

\* out.write_all(&decoded)? with a failing sink: k bytes of `decoded` were passed on
DecWriteFail ==
    /\ DecReady
    /\ ReadSome(wire, decPos, 2)
    /\ LET code    == from_be_bytes(SubSeq(wire, decPos + 1, decPos + 2))
           miss    == ~contains_key(build_default_dec_dict, decAdded, code)
           added1  == IF miss
                      THEN DictInsert(decAdded, code, or_insert_with(decSeq))
                      ELSE decAdded
           decoded == get(build_default_dec_dict, added1, code)
       IN  /\ ~(miss /\ decSeq = <<>>)
           /\ decPos' = decPos + 2
           /\ decCode' = code
           /\ decMiss' = miss
           /\ decAdded' = added1
           /\ \E k \in 0 .. Len(decoded) - 1 :
                decOut' = decOut \o SubSeq(decoded, 1, k)
    /\ decStatus' = "err"
    /\ UNCHANGED <<encVars, wire, decSeq, capVars, runVars, statVars>>

\* what enc writes on the bytes x[pos+1..] when no read and no write fails
RECURSIVE EncFold(_, _, _, _, _)
EncFold(x, pos, added, seq, out) ==
    IF ~ReadSome(x, pos, 1)
    THEN IF FlushNeeded(seq)
         THEN out \o to_be_bytes(get(build_default_enc_dict, added, seq))
         ELSE out
    ELSE LET c    == x[pos + 1]
             seq1 == Append(seq, c)
         IN  IF contains_key(build_default_enc_dict, added, seq1)
             THEN EncFold(x, pos + 1, added, seq1, out)
             ELSE EncFold(x, pos + 1,
                          DictInsert(added, mem_replace(seq1, <<c>>),
                                     try_into(len(build_default_enc_dict, added))),
                          <<c>>,
                          out \o to_be_bytes(
                                get(build_default_enc_dict, added, prev_seq(seq1))))

\* what dec writes on the bytes w[pos+1..] when no read and no write fails
RECURSIVE DecFold(_, _, _, _, _)
DecFold(w, pos, added, seq, out) ==
    IF ~ReadSome(w, pos, 2) THEN out
    ELSE LET code == from_be_bytes(SubSeq(w, pos + 1, pos + 2))
             miss == ~contains_key(build_default_dec_dict, added, code)
         IN  IF miss /\ seq = <<>> THEN out
             ELSE LET added1  == IF miss
                                 THEN DictInsert(added, code, or_insert_with(seq))
                                 ELSE added
                      decoded == get(build_default_dec_dict, added1, code)
                      next    == try_into(len(build_default_dec_dict, added1))
                  IN  DecFold(w, pos + 2,
                              IF seq # <<>>
                              THEN DictInsert(added1, next, next_entry(seq, decoded))
                              ELSE added1,
                              decoded, out \o decoded)

\* enc then dec on an input, where every read and every write may fail
InitIo ==
    /\ input \in SeqsUpTo(SampleBytes, MaxIoLen)
    /\ encPos = 0
    /\ encAdded = <<>>
    /\ encSeq = <<>>
    /\ encStatus = "run"
    /\ wire = <<>>
    /\ DecInit
    /\ CapIdle
    /\ RunInit
    /\ StatIdle

NextIo ==
    \/ EncStep \/ EncFlush \/ DecStep \/ DecEof
    \/ EncReadFail \/ EncWriteFail \/ DecReadFail \/ DecWriteFail

SpecIo == InitIo /\ [][NextIo]_vars

----------------------------------------------------------------------------
(* Two calls: enc and dec are called a second time on the same input, with   *)
(* a new sink each, after both have returned Ok.                             *)

\* the entry of enc with the dictionary of the call before kept
EncEntryStale ==
    /\ encPos' = 0
    /\ encSeq' = <<>>
    /\ encStatus' = "run"
    /\ UNCHANGED encAdded

\* the entry of enc_returning_dict: dict = build_default_enc_dict(), seq = Vec::new()
EncEntry ==
    /\ encPos' = 0
    /\ encAdded' = <<>>
    /\ encSeq' = <<>>
    /\ encStatus' = "run"

\* the entry of dec: dict = build_default_dec_dict(), seq = Vec::new()
DecEntry ==
    /\ decPos' = 0
    /\ decAdded' = <<>>
    /\ decSeq' = <<>>
    /\ decOut' = <<>>
    /\ decStatus' = "run"
    /\ decCode' = -1
    /\ decMiss' = FALSE

\* the caller keeps what the first calls wrote and calls enc and dec again
CallAgain ==
    /\ run = 1
    /\ encStatus = "ok"
    /\ decStatus = "ok"
    /\ run' = 2
    /\ firstWire' = wire
    /\ firstOut' = decOut
    /\ wire' = <<>>
    /\ EncEntry
    /\ DecEntry
    /\ UNCHANGED <<input, capVars, statVars>>

NextTwice == EncStep \/ EncFlush \/ DecStep \/ DecEof \/ CallAgain

SpecTwice == Init /\ [][NextTwice]_vars

----------------------------------------------------------------------------
(* Stat of src/stat/src/lib.rs: a reader/writer that counts the bytes its     *)
(* inner reader/writer reports.  The counters are u64 and stay far below     *)
(* 2^64 here.  statLast is <<call, "ok" or "err", n>>, what the last call    *)
(* returned.                                                                 *)

\* the counter counting calls instead of bytes
add_count_calls(count, n) == count + 1

\* self.read_count += u64::try_from(n).unwrap(), and the same for write_count
add_count(count, n) == count + n

\* Stat::read when inner.read(buf) returns Ok(n), buf of k bytes
StatRead ==
    /\ \E k \in 0 .. MaxBuf :
        \E n \in 0 .. k :
            /\ n <= Len(statSrc) - statPos
            /\ statPos' = statPos + n
            /\ statGot' = statGot \o SubSeq(statSrc, statPos + 1, statPos + n)
            /\ read_count' = add_count(read_count, n)
            /\ statLast' = <<"read", "ok", n>>
    /\ UNCHANGED <<statSrc, statSink, write_count>>
    /\ UNCHANGED <<encVars, wire, decVars, capVars, runVars>>

\* Stat::read when inner.read(buf) returns an Err: `?` returns it
StatReadErr ==
    /\ statLast' = <<"read", "err", 0>>
    /\ UNCHANGED <<statSrc, statPos, statGot, statSink, read_count, write_count>>
    /\ UNCHANGED <<encVars, wire, decVars, capVars, runVars>>

\* Stat::write when inner.write(buf) returns Ok(n): the inner writer took n bytes
StatWrite ==
    /\ \E buf \in UNION {[1 .. k -> StatBytes] : k \in 0 .. MaxBuf} :
        \E n \in 0 .. Len(buf) :
            /\ Len(statSink) + n <= MaxStatLen
            /\ statSink' = statSink \o SubSeq(buf, 1, n)
            /\ write_count' = add_count(write_count, n)
            /\ statLast' = <<"write", "ok", n>>
    /\ UNCHANGED <<statSrc, statPos, statGot, read_count>>
    /\ UNCHANGED <<encVars, wire, decVars, capVars, runVars>>

\* Stat::write when inner.write(buf) returns an Err: `?` returns it
StatWriteErr ==
    /\ statLast' = <<"write", "err", 0>>
    /\ UNCHANGED <<statSrc, statPos, statGot, statSink, read_count, write_count>>
    /\ UNCHANGED <<encVars, wire, decVars, capVars, runVars>>

\* Stat::flush: whatever inner.flush() returns
StatFlush ==
    /\ \E res \in {"ok", "err"} : statLast' = <<"flush", res, 0>>
    /\ UNCHANGED <<statSrc, statPos, statGot, statSink, read_count, write_count>>
    /\ UNCHANGED <<encVars, wire, decVars, capVars, runVars>>

\* Stat::new on an inner reader that holds statSrc and an empty inner writer
InitStat ==
    /\ input = <<>>
    /\ encPos = 0
    /\ encAdded = <<>>
    /\ encSeq = <<>>
    /\ encStatus = "off"
    /\ wire = <<>>
    /\ DecInit
    /\ CapIdle
    /\ RunInit
    /\ statSrc \in UNION {[1 .. k -> StatBytes] : k \in 0 .. MaxStatLen}
    /\ statPos = 0
    /\ statGot = <<>>
    /\ statSink = <<>>
    /\ read_count = 0
    /\ write_count = 0
    /\ statLast = <<"new", "ok", 0>>

NextStat == StatRead \/ StatReadErr \/ StatWrite \/ StatWriteErr \/ StatFlush

SpecStat == InitStat /\ [][NextStat]_vars

----------------------------------------------------------------------------
(* Properties *)

\* C1: round trip: when enc has returned Ok on an input, dec on what enc wrote
\* does not panic, and when it returns Ok it has written exactly the input.
RoundTrip ==
    encStatus = "ok" =>
        /\ decStatus # "panic"
        /\ decStatus = "ok" => decOut = input

\* C2: repeated byte: for an input that is one byte b repeated n >= 1 times,
\* dec on enc's output writes exactly b repeated n times.
RepeatedByteRoundTrip ==
    (input \in Runs /\ encStatus = "ok" /\ decStatus = "ok") =>
        /\ Len(decOut) = Len(input)
        /\ \A i \in 1 .. Len(decOut) : decOut[i] = input[1]

\* C3: self-referential case: a code dec reads that is missing from its dictionary
\* and equals the next code to be assigned (dict.len()) is resolved to the
\* previous sequence plus that sequence's first byte, written to the output, and
\* it is the sequence the encoder holds under that code; enc("ABABABA") emits
\* the codes [65, 66, 256, 258] and dec writes "ABABABA" back.
KwKwKResolved ==
    /\ [][(DecStep /\ decMiss' /\ decCode' = DictLen(decDict)) =>
            /\ decStatus' = "run"
            /\ decSeq' = Append(decSeq, decSeq[1])
            /\ decOut' = decOut \o decSeq'
            /\ decSeq' \in DOMAIN encDict
            /\ encDict[decSeq'] = decCode']_vars
    /\ []((input = Ref3 /\ encStatus = "ok") => CodesOf(wire) = <<65, 66, 256, 258>>)
    /\ []((input = Ref3 /\ encStatus = "ok" /\ decStatus # "run") =>
            (decStatus = "ok" /\ decOut = Ref3))

\* C3 witness: dec has finished "ABABABA", whose last code, 258, was missing
KwKwKSeen ==
    /\ input = Ref3
    /\ decStatus = "ok"
    /\ decMiss
    /\ decCode = 258
    /\ decOut = Ref3

\* C4: reference vectors: enc writes "ABBABBBABBA" as the codes
\* [65, 66, 66, 256, 257, 259, 65] and "ABABA" as [65, 66, 256, 65], two
\* big-endian bytes per code, and dec on each stream writes the input back.
ReferenceVectors ==
    /\ (input = Ref1 /\ encStatus # "run") =>
            /\ encStatus = "ok"
            /\ wire = <<0, 65, 0, 66, 0, 66, 1, 0, 1, 1, 1, 3, 0, 65>>
            /\ CodesOf(wire) = <<65, 66, 66, 256, 257, 259, 65>>
    /\ (input = Ref2 /\ encStatus # "run") =>
            /\ encStatus = "ok"
            /\ wire = <<0, 65, 0, 66, 1, 0, 0, 65>>
            /\ CodesOf(wire) = <<65, 66, 256, 65>>
    /\ (input \in {Ref1, Ref2} /\ decStatus # "run") =>
            (decStatus = "ok" /\ decOut = input)

\* C4 witness: dec has written "ABBABBBABBA" back
ReferenceVectorDecoded ==
    /\ input = Ref1
    /\ decStatus = "ok"
    /\ decOut = Ref1
    /\ Len(wire) = 14

\* the codes of a code stream that are >= 256
BigCodes(w) == {i \in 1 .. Len(CodesOf(w)) : CodesOf(w)[i] > U8Max}

\* C5 as first stated: when enc has returned, the size of its dictionary is 256
\* plus the number of emitted codes >= 256.
DictSizeCountsBigCodes ==
    encStatus = "ok" =>
        DictLen(encDict) = DictLen(build_default_enc_dict) + Cardinality(BigCodes(wire))

\* C5 as amended: when enc has returned, the size of its dictionary is 256 plus
\* the number of codes emitted inside the read loop, that is every emitted code
\* but the one of the final flush, which inserts no entry.
DictSizeCountsLoopCodes ==
    encStatus = "ok" =>
        len(build_default_enc_dict, encAdded)
            = 256 + (IF input = <<>> THEN 0 ELSE Len(CodesOf(wire)) - 1)

\* C5 witness: enc has returned on "ABBABBBABBA" with 7 codes and 262 entries
DictSizeAfterRef1 ==
    /\ input = Ref1
    /\ encStatus = "ok"
    /\ Len(CodesOf(wire)) = 7
    /\ DictLen(encDict) = 262

\* both default dictionaries hold exactly the 256 single-byte sequences, each
\* under its own value
DefaultsCoverBytes ==
    /\ DictLen(build_default_enc_dict) = 256
    /\ DictLen(build_default_dec_dict) = 256
    /\ \A b \in Byte :
        /\ <<b>> \in DOMAIN build_default_enc_dict
        /\ build_default_enc_dict[<<b>>] = b
        /\ b \in DOMAIN build_default_dec_dict
        /\ build_default_dec_dict[b] = <<b>>

\* C6: bootstrap: both default dictionaries hold exactly the 256 single-byte
\* sequences, each under its own value; enc on a one-byte input [b] writes the
\* two bytes [0, b] and nothing else; every code assigned later is >= 256, the
\* first being 256.
BootstrapCoverage ==
    /\ DefaultsCoverBytes
    /\ encPos = 0 => encDict = build_default_enc_dict
    /\ (DecReady /\ decPos = 0) => decDict = build_default_dec_dict
    /\ (Len(input) = 1 /\ encStatus # "run") =>
            (encStatus = "ok" /\ wire = <<0, input[1]>>)
    /\ \A k \in DOMAIN encAdded : encAdded[k] >= 256
    /\ encAdded # <<>> => \E k \in DOMAIN encAdded : encAdded[k] = 256
    /\ \A c \in DOMAIN decAdded : c >= 256
    /\ decAdded # <<>> => 256 \in DOMAIN decAdded

\* C6 witness: enc has returned on the one-byte input [255]
SingleByteEncoded ==
    /\ input = <<255>>
    /\ encStatus = "ok"
    /\ wire = <<0, 255>>

\* C7: empty boundary: enc on an empty source writes nothing and returns Ok, and
\* dec on an empty source writes nothing and returns Ok.
EmptyBoundary ==
    /\ (input = <<>> /\ encStatus # "run") => (encStatus = "ok" /\ wire = <<>>)
    /\ (wire = <<>> /\ encStatus = "ok" /\ decStatus # "run") =>
            (decStatus = "ok" /\ decOut = <<>>)

\* C7 witness: both enc and dec have returned on the empty source
EmptyDone ==
    /\ input = <<>>
    /\ encStatus = "ok"
    /\ wire = <<>>
    /\ decStatus = "ok"
    /\ decOut = <<>>

\* C8: truncated token: dec returns Ok only when it stopped with zero bytes of
\* the next code available; a source that ends after one byte of a code is no
\* clean stop.
TruncatedTokenFails ==
    decStatus = "ok" => Len(wire) - decPos = 0

\* C9: capacity: the conversion of dict.len() to a code never crashes the call,
\* and the dictionary never holds more than 2^16 entries.
CapacityExhaustionIsError ==
    /\ capStatus # "panic"
    /\ capLen <= CodeMax + 1

\* C10: corrupt input: when dec reads a code missing from its dictionary that is
\* not the self-referential case (the code equals dict.len() and a previous
\* sequence exists), dec fails with an error: it neither panics nor goes on.
CorruptCodeRejected ==
    [][(DecStep /\ decMiss' /\ ~(decCode' = DictLen(decDict) /\ decSeq # <<>>)) =>
            decStatus' = "err"]_vars

\* C11: I/O failure propagation: once a read or a write of enc or dec has
\* failed, the call has returned: it reads and writes nothing more; what the
\* sink accepted before the failure is a prefix of what the call writes when
\* nothing fails (which is what it has written when it returns Ok).
IoFailurePropagates ==
    /\ []((encStatus = "err" => IsPrefix(wire, EncFold(input, 0, <<>>, <<>>, <<>>)))
          /\ (encStatus = "ok" => wire = EncFold(input, 0, <<>>, <<>>, <<>>))
          /\ (decStatus = "err" => IsPrefix(decOut, DecFold(wire, 0, <<>>, <<>>, <<>>)))
          /\ (decStatus = "ok" => decOut = DecFold(wire, 0, <<>>, <<>>, <<>>)))
    /\ [][/\ encStatus = "err" => UNCHANGED <<encPos, wire, encStatus, decVars>>
          /\ decStatus = "err" => UNCHANGED <<decPos, decOut, decStatus>>]_vars

\* C11 witness: the sink of enc failed in the middle of a code, after whole codes
IoFailedMidCode ==
    /\ encStatus = "err"
    /\ Len(wire) = 3
    /\ decPos = 0
    /\ decOut = <<>>

\* C12: determinism: the second call of enc on the same input starts from the
\* bootstrap dictionary and an empty candidate and writes the same bytes as the
\* first; the second call of dec starts from the bootstrap dictionary and writes
\* the same bytes as the first.
Deterministic ==
    run = 2 =>
        /\ encPos = 0 => (encAdded = <<>> /\ encSeq = <<>>)
        /\ decPos = 0 => (decAdded = <<>> /\ decSeq = <<>>)
        /\ encStatus = "ok" => wire = firstWire
        /\ decStatus = "ok" => decOut = firstOut
        /\ encStatus # "panic"
        /\ decStatus # "panic"

\* C12 witness: both second calls have returned on "ABABABA", with the same output
SecondCallDone ==
    /\ run = 2
    /\ input = Ref3
    /\ encStatus = "ok"
    /\ decStatus = "ok"
    /\ wire = firstWire
    /\ Len(wire) = 8
    /\ decOut = firstOut

\* C13: Stat counters: read_count is the number of bytes the inner reader has
\* handed out (the sum of the counts of its successful reads) and write_count
\* the number the inner writer has accepted; the bytes read are those of the
\* inner reader, unchanged; a read leaves write_count alone, a write or a flush
\* leaves read_count alone, and a failed inner call leaves both alone.
StatCounters ==
    /\ [](/\ read_count = statPos
          /\ read_count = Len(statGot)
          /\ statGot = SubSeq(statSrc, 1, statPos)
          /\ write_count = Len(statSink))
    /\ [][(StatRead \/ StatReadErr) => UNCHANGED <<write_count, statSink>>]_vars
    /\ [][(StatWrite \/ StatWriteErr \/ StatFlush) =>
            UNCHANGED <<read_count, statPos, statGot>>]_vars
    /\ [][statLast'[2] = "err" => UNCHANGED <<read_count, write_count>>]_vars

\* C13 witness: three bytes read and three written, and then a failed write
StatCounted ==
    /\ read_count = 3
    /\ write_count = 3
    /\ statGot = <<0, 255, 0>>
    /\ statSink = <<255, 255, 0>>
    /\ statLast = <<"write", "err", 0>>

\* C14: the decoder mirrors the encoder one code behind: after dec has read k >= 1
\* codes of enc's output, the entries it has inserted are exactly the first k - 1
\* entries enc inserted, under the same codes 256 .. 254 + k.
DecMirrorsEnc ==
    (encStatus = "ok" /\ decPos >= 2) =>
        LET k == decPos \div 2
        IN  /\ DOMAIN decAdded = 256 .. (254 + k)
            /\ \A c \in DOMAIN decAdded :
                /\ decAdded[c] \in DOMAIN encAdded
                /\ encAdded[decAdded[c]] = c

\* the not-yet-encoded input when the candidate is seq: from the byte seq began at
Unencoded == SubSeq(input, encPos - Len(encSeq) + 1, Len(input))

\* the last code of a code stream
LastCode(w) == CodesOf(w)[Len(CodesOf(w))]

\* C15: greedy longest match: the code enc emits stands for the longest prefix of
\* the not-yet-encoded input that is a key of the dictionary at that moment, and
\* the entry inserted right after is that prefix extended by the next input byte
\* (nothing is inserted after the flush).
GreedyLongestMatch ==
    [][((EncStep \/ EncFlush) /\ wire' # wire) =>
        LET dict == encDict
            rest == Unencoded
        IN  /\ encSeq # <<>>
            /\ encSeq \in DOMAIN dict
            /\ LastCode(wire') = dict[encSeq]
            /\ Len(wire') = Len(wire) + 2
            /\ IsPrefix(encSeq, rest)
            /\ \A n \in (Len(encSeq) + 1) .. Len(rest) :
                    SubSeq(rest, 1, n) \notin DOMAIN dict
            /\ IF EncStep
               THEN /\ Len(rest) > Len(encSeq)
                    /\ (DOMAIN encAdded') \ (DOMAIN encAdded)
                            = {Append(encSeq, rest[Len(encSeq) + 1])}
               ELSE /\ rest = encSeq
                    /\ encAdded' = encAdded]_vars

\* C15 witness: on "ABBABBBABBA" enc has emitted 259 for "ABB", the longest
\* match of the rest "ABBA", and inserted "ABBA"
GreedyMatched ==
    /\ input = Ref1
    /\ encStatus = "run"
    /\ encPos = 11
    /\ Len(wire) = 12
    /\ LastCode(wire) = 259
    /\ <<65, 66, 66, 65>> \in DOMAIN encAdded

\* C16: growth per emission: one iteration of the loop adds one entry when it
\* emits a code and none when it does not, the flush adds none, and when enc
\* returns on a non-empty input its dictionary holds 256 + (codes emitted - 1)
\* entries, 256 on the empty input.
EncGrowthPerEmission ==
    /\ [][EncStep =>
            /\ len(build_default_enc_dict, encAdded')
                    - len(build_default_enc_dict, encAdded)
                = (Len(wire') - Len(wire)) \div 2
            /\ Len(wire') - Len(wire) \in {0, 2}]_vars
    /\ [][EncFlush =>
            /\ len(build_default_enc_dict, encAdded')
                    = len(build_default_enc_dict, encAdded)
            /\ Len(wire') - Len(wire) = (IF encSeq = <<>> THEN 0 ELSE 2)]_vars
    /\ []((encStatus = "ok" /\ input # <<>>) =>
            Cardinality(DOMAIN encAdded) = Len(wire) \div 2 - 1)
    /\ []((encStatus = "ok" /\ input = <<>>) => (encAdded = <<>> /\ wire = <<>>))

\* C16 witness: the flush has emitted the 4th code of "ABABA" with 3 entries added
FlushAddedNothing ==
    /\ input = Ref2
    /\ encStatus = "ok"
    /\ Len(wire) = 8
    /\ Cardinality(DOMAIN encAdded) = 3

\* C17: dense codes: the codes of the inserted entries are exactly
\* 256 .. 255 + N for N entries, each used once (with the bootstrap codes the
\* codes are 0 .. size - 1), and an entry is inserted under the size of the
\* dictionary just before.
DenseCodes ==
    /\ [](LET N == Cardinality(DOMAIN encAdded)
          IN  /\ {encAdded[k] : k \in DOMAIN encAdded} = 256 .. (255 + N)
              /\ \A k \in DOMAIN encAdded : k \notin DOMAIN build_default_enc_dict
              /\ \A k1, k2 \in DOMAIN encAdded :
                    encAdded[k1] = encAdded[k2] => k1 = k2)
    /\ [][(EncStep /\ encAdded' # encAdded) =>
            \A k \in (DOMAIN encAdded') \ (DOMAIN encAdded) :
                encAdded'[k] = len(build_default_enc_dict, encAdded)]_vars

\* C17 witness: the 6th entry of "ABBABBBABBA", "ABBA", has the code 261
SixthEntry ==
    /\ input = Ref1
    /\ Cardinality(DOMAIN encAdded) = 6
    /\ <<65, 66, 66, 65>> \in DOMAIN encAdded
    /\ encAdded[<<65, 66, 66, 65>>] = 261

\* C18: append-only decode dictionary: no step of dec on any code stream removes
\* a code or changes the sequence of a code already present.
DecDictAppendOnly ==
    [][/\ \A c \in DOMAIN decAdded :
            /\ c \in DOMAIN decAdded'
            /\ decAdded'[c] = decAdded[c]
       /\ \A c \in (DOMAIN decAdded') \ (DOMAIN decAdded) :
            c \notin DOMAIN build_default_dec_dict]_vars

\* whether k is a key of enc's `dict`
EncKey(k) == k \in DOMAIN encAdded \/ k \in DOMAIN build_default_enc_dict

\* C19: candidate always known: enc never panics; before every iteration and at
\* the end of the stream the candidate is empty or a key; the sequence handed to
\* emit (the candidate without its last byte in the loop, the candidate in the
\* flush) is a non-empty key.
CandidateKnown ==
    /\ encStatus # "panic"
    /\ encStatus \in {"run", "ok"} => (encSeq = <<>> \/ EncKey(encSeq))
    /\ (encStatus = "run" /\ ReadSome(input, encPos, 1)
            /\ ~EncKey(Append(encSeq, input[encPos + 1]))) =>
        /\ prev_seq(Append(encSeq, input[encPos + 1])) # <<>>
        /\ EncKey(prev_seq(Append(encSeq, input[encPos + 1])))
    /\ (encStatus = "run" /\ ~ReadSome(input, encPos, 1) /\ FlushNeeded(encSeq)) =>
        EncKey(encSeq)

\* C19 witness: at the end of "ABABABA" the candidate is the inserted key "ABA"
CandidateIsInsertedKey ==
    /\ input = Ref3
    /\ encStatus = "run"
    /\ encPos = 7
    /\ encSeq = <<65, 66, 65>>
    /\ encSeq \in DOMAIN encAdded

\* C20: injective decode dictionary: while dec reads enc's output, no two codes
\* of its dictionary stand for the same byte sequence.
DecDictInjective ==
    encStatus = "ok" =>
        LET dict == decDict
        IN  \A c1 \in DOMAIN decAdded :
                \A c2 \in DOMAIN dict : c1 # c2 => dict[c1] # dict[c2]

====
